---------------------------- MODULE Spec2Model ----------------------------
(***************************************************************************)
(* Model of PortfolioManagement (stockdata.py, portfolio.py): the panel    *)
(* store built by StockData.__init__, the weight policies of Portfolio     *)
(* and the expanding-window backtest loop StockData.rebalance.             *)
(*                                                                         *)
(* Numbers.  The program computes in IEEE doubles held in pandas objects.  *)
(* A value is modelled as a pair <<n, d>>: an exact fraction n/d in lowest *)
(* terms with d > 0, or one of the three special doubles                   *)
(*     NaN = <<0, 0>>,  +inf = <<1, 0>>,  -inf = <<-1, 0>>.                *)
(* The operators F* below follow the IEEE rules for these (0/0 = NaN,      *)
(* x/0 = +-inf, inf - inf = NaN, 0 * inf = NaN, comparisons with NaN are   *)
(* false).  Rounding and signed zeros are not modelled.                    *)
(***************************************************************************)
EXTENDS Integers, Sequences, FiniteSets, TLC

VARIABLES
  data,               \* the long-format record list handed to the constructor
  self,               \* the StockData/Portfolio object: ret, shrout, mktcap, date_index
  pc,                 \* position of the program
  portfolio_function, \* rebalance argument: the policy
  start,              \* rebalance argument: the calendar cutoff
  cnt,                \* rebalance loop counter (enumerate position)
  df_weight,          \* rebalance local, per cost rate: date -> asset -> weight
  pf_ret,             \* rebalance local, per cost rate: date -> pf_value
  res,                \* the OptimizeResult of the last sp.optimize.minimize call
  target_weight,      \* what the last portfolio_function call returned
  calls,              \* history: the portfolio_function calls made (cnt, when, rows read, result)
  out                 \* per cost rate: the series rebalance returned

vars == <<data, self, pc, portfolio_function, start, cnt, df_weight, pf_ret,
          res, target_weight, calls, out>>

---------------------------------------------------------------------------
(* Bounds of the model *)

\* number of time steps of the panels the backtest is run on
NumSteps == 3

\* longest record list handed to the constructor in the construction runs
MaxRows == 4

---------------------------------------------------------------------------
(* Doubles *)

NaN == <<0, 0>>
PInf == <<1, 0>>
NInf == <<-1, 0>>

IAbs(i) == IF i < 0 THEN -i ELSE i
Sgn(i) == IF i < 0 THEN -1 ELSE IF i > 0 THEN 1 ELSE 0

RECURSIVE Gcd(_, _)
Gcd(a, b) == IF b = 0 THEN a ELSE Gcd(b, a % b)

\* the fraction n/d (d # 0) in lowest terms with a positive denominator
Frac(n, d) ==
  LET g == Gcd(IAbs(n), IAbs(d))
      s == Sgn(d)
  IN <<(s * n) \div g, (s * d) \div g>>

Num(i) == <<i, 1>>
Zero == Num(0)
One == Num(1)

IsNaN(x) == x = NaN
IsFinite(x) == x[2] # 0

FNeg(x) == <<-x[1], x[2]>>
FAbs(x) == <<IAbs(x[1]), x[2]>>

FAdd(x, y) ==
  IF IsNaN(x) \/ IsNaN(y) THEN NaN
  ELSE IF IsFinite(x) /\ IsFinite(y) THEN Frac(x[1] * y[2] + y[1] * x[2], x[2] * y[2])
  ELSE IF IsFinite(x) THEN y
  ELSE IF IsFinite(y) THEN x
  ELSE IF x = y THEN x ELSE NaN

FSub(x, y) == FAdd(x, FNeg(y))

FMul(x, y) ==
  IF IsNaN(x) \/ IsNaN(y) THEN NaN
  ELSE IF IsFinite(x) /\ IsFinite(y) THEN Frac(x[1] * y[1], x[2] * y[2])
  ELSE <<Sgn(x[1]) * Sgn(y[1]), 0>>

FDiv(x, y) ==
  IF IsNaN(x) \/ IsNaN(y) THEN NaN
  ELSE IF IsFinite(y) /\ y[1] # 0
         THEN (IF IsFinite(x) THEN Frac(x[1] * y[2], x[2] * y[1])
               ELSE <<Sgn(x[1]) * Sgn(y[1]), 0>>)
  ELSE IF IsFinite(y) THEN <<Sgn(x[1]), 0>>        \* x / 0
  ELSE IF IsFinite(x) THEN Zero ELSE NaN            \* x / inf

\* x < y and x <= y on doubles: false as soon as a NaN is involved
FLt(x, y) ==
  /\ ~IsNaN(x) /\ ~IsNaN(y)
  /\ IF IsFinite(x) /\ IsFinite(y) THEN x[1] * y[2] < y[1] * x[2]
     ELSE IF IsFinite(x) THEN y = PInf
     ELSE IF IsFinite(y) THEN x = NInf
     ELSE x = NInf /\ y = PInf

FLe(x, y) == ~IsNaN(x) /\ ~IsNaN(y) /\ (x = y \/ FLt(x, y))

\* the plain sum of the values of a function (NaN propagates)
RECURSIVE FSum(_)
FSum(f) ==
  IF DOMAIN f = {} THEN Zero
  ELSE LET k == CHOOSE k \in DOMAIN f : TRUE
       IN FAdd(f[k], FSum([j \in DOMAIN f \ {k} |-> f[j]]))

\* pandas Series.sum(): skipna=True, the NaN entries are left out; an
\* all-NaN (or empty) Series sums to 0
SeriesSum(s) ==
  LET keep == {k \in DOMAIN s : ~IsNaN(s[k])}
  IN FSum([k \in keep |-> s[k]])


---------------------------------------------------------------------------
(* StockData: the panel store (stockdata.py) *)

\* index and columns of a pivot: the distinct dates and permnos of the records
Index(d) == {d[i].date : i \in DOMAIN d}
Columns(d) == {d[i].permno : i \in DOMAIN d}

\* pd.pivot raises ValueError ("Index contains duplicate entries, cannot
\* reshape") when two records share (date, permno); nothing else is checked
HasDuplicateEntries(d) ==
  \E i, j \in DOMAIN d : i # j /\ d[i].date = d[j].date /\ d[i].permno = d[j].permno

\* pd.pivot(data, values=field, index="date", columns="permno"): one row per
\* date, one column per permno; a (date, permno) pair without a record is NaN
pivot(d, field) ==
  [dt \in Index(d) |->
     [p \in Columns(d) |->
        LET rows == {i \in DOMAIN d : d[i].date = dt /\ d[i].permno = p}
        IN IF rows = {} THEN NaN ELSE d[CHOOSE i \in rows : TRUE][field]]]

\* self.ret.index.copy().tolist(): the dates in index (ascending) order, as a
\* list addressed by position 0 .. len-1
get_datetime_index(ret) ==
  [i \in 0 .. Cardinality(DOMAIN ret) - 1 |->
     CHOOSE dt \in DOMAIN ret : Cardinality({e \in DOMAIN ret : e < dt}) = i]

\* self.ret * self.shrout, cell by cell
PanelProduct(x, y) == [dt \in DOMAIN x |-> [p \in DOMAIN x[dt] |-> FMul(x[dt][p], y[dt][p])]]

\* StockData.__init__ (the prc panel is built the same way and never read)
StockData(d) ==
  LET r == pivot(d, "ret")
      sh == pivot(d, "shrout")
  IN [ret |-> r, shrout |-> sh, mktcap |-> PanelProduct(r, sh),
      date_index |-> get_datetime_index(r)]

\* mutant: the slice stops before the label (a half-open slice)
get_ret_til_Exclusive(s, when) ==
  [dt \in {e \in DOMAIN s.ret : e < s.date_index[when]} |-> s.ret[dt]]

\* the rows of self.ret with a label up to and including date_index[when]
get_ret_til(s, when) ==
  [dt \in {e \in DOMAIN s.ret : e <= s.date_index[when]} |-> s.ret[dt]]

gen_weight_zeros(s) == [dt \in DOMAIN s.ret |-> [p \in DOMAIN s.ret[dt] |-> Zero]]

gen_return_zeros(s) == [dt \in DOMAIN s.ret |-> Zero]

Len_(s) == Cardinality(DOMAIN s.date_index)
AssetsOf(s) == UNION {DOMAIN s.ret[dt] : dt \in DOMAIN s.ret}

---------------------------------------------------------------------------
(* Portfolio: the weight policies (portfolio.py) *)

\* mutant: the caps are divided by the total of the shares, not of the caps
value_weight_ShroutTotal(s, when) ==
  LET row == s.mktcap[s.date_index[when]]
      total == SeriesSum(s.shrout[s.date_index[when]])
  IN [p \in DOMAIN row |-> FDiv(row[p], total)]

\* mktcap row at date_index[when] divided by its (skipna) sum
value_weight(s, when) ==
  LET row == s.mktcap[s.date_index[when]]
      total == SeriesSum(row)
  IN [p \in DOMAIN row |-> FDiv(row[p], total)]

\* mutant: divides by shape[0], the number of dates, not of assets
equal_weight_ByRows(s, when) ==
  LET row == s.ret[s.date_index[when]]
  IN [p \in DOMAIN row |-> FDiv(One, Num(Cardinality(DOMAIN s.ret)))]

\* np.ones_like(row) / self.ret.shape[1]
equal_weight(s, when) ==
  LET row == s.ret[s.date_index[when]]
  IN [p \in DOMAIN row |-> FDiv(One, Num(Cardinality(AssetsOf(s))))]

\* options={'maxiter': 5000}
maxiter == 5000

\* w0 = e / len(e), the optimiser's starting point
w0(s) == [p \in AssetsOf(s) |-> FDiv(One, Num(Cardinality(AssetsOf(s))))]

\* a long-short vector meeting the budget constraint
LongShort(s) ==
  LET lo == CHOOSE p \in AssetsOf(s) : \A q \in AssetsOf(s) : p <= q
      rest == AssetsOf(s) \ {lo}
      nx == CHOOSE p \in rest : \A q \in rest : p <= q
  IN [p \in AssetsOf(s) |-> IF p = lo THEN Num(2) ELSE IF p = nx THEN Num(-1) ELSE Zero]

\* sp.optimize.minimize(fobj, w0, ...): the OptimizeResult.  Which iterate the
\* SLSQP run ends on and whether it converged within maxiter iterations is
\* numerical; every outcome below is possible: nit counts the iterations,
\* success is False when the cap was hit or the optimiser reports failure.
minimize(s, ret_window) ==
  {[called |-> TRUE, x |-> x, success |-> ok, nit |-> IF ok THEN 1 ELSE maxiter] :
     x \in {w0(s), LongShort(s)}, ok \in BOOLEAN}

\* mean_variance, mean_variance_short_constraint and robust_optimization all
\* end the same way:  res = minimize(...); weight = res.x; return weight
mean_variance(r) == r.x

Policies == {"value_weight", "equal_weight", "mean_variance"}

IsOptimizerPolicy(pfn) == pfn = "mean_variance"

\* the dates whose panel rows a policy call reads
PolicyReads(pfn, s, when) ==
  IF IsOptimizerPolicy(pfn) THEN DOMAIN get_ret_til(s, when) ELSE {s.date_index[when]}

\* portfolio_function(when); r is the optimiser's result for the window
CallPolicy(pfn, s, when, r) ==
  CASE pfn = "value_weight" -> value_weight(s, when)
    [] pfn = "equal_weight" -> equal_weight(s, when)
    [] pfn = "mean_variance" -> mean_variance(r)

---------------------------------------------------------------------------
(* StockData.rebalance (stockdata.py) *)

\* The cost rates the backtest is run with.  transaction_cost only enters the
\* last statement of the loop body, so the runs for all rates are carried side
\* by side (same store, same policy, same cutoff, and the same solver results:
\* the solvers are deterministic functions of the store and of the index).
TransactionCosts == {Zero, Frac(1, 4), One}

\* mutant: the mask keeps the cutoff date itself
start_condition_Inclusive(s, st) == [dt \in DOMAIN s.ret |-> dt >= st]

\* start_condition = self.ret.index > pd.to_datetime(start)
start_condition(s, st) == [dt \in DOMAIN s.ret |-> dt > st]

\* (1 + ret[prev]) * df_weight[prev], then divided by its (skipna) sum
current_weight(s, dw, prev) ==
  LET grown == [p \in DOMAIN dw[prev] |-> FMul(FAdd(One, s.ret[prev][p]), dw[prev][p])]
      total == SeriesSum(grown)
  IN [p \in DOMAIN grown |-> FDiv(grown[p], total)]

\* np.abs(target_weight - current_weight): a Series, as current_weight is one
weight_difference(target, current) ==
  [p \in DOMAIN current |-> FAbs(FSub(target[p], current[p]))]

\* df_weight.loc[date_index[cnt]] = target_weight
SetWeight(dw, dt, target) == [dw EXCEPT ![dt] = target]

\* mutant: the transaction cost is never deducted
SetReturn_NoCost(s, pf, dw, dt, diff, transaction_cost) ==
  [pf EXCEPT ![dt] = SeriesSum([p \in DOMAIN dw[dt] |-> FMul(s.ret[dt][p], dw[dt][p])])]

\* pf_ret.loc[date, "pf_value"] = (ret.loc[date] * df_weight.loc[date]).sum()
\* pf_ret.loc[date, "pf_value"] -= weight_difference.sum() * transaction_cost
SetReturn(s, pf, dw, dt, diff, transaction_cost) ==
  LET gross == SeriesSum([p \in DOMAIN dw[dt] |-> FMul(s.ret[dt][p], dw[dt][p])])
  IN [pf EXCEPT ![dt] = FSub(gross, FMul(SeriesSum(diff), transaction_cost))]

\* mutant: only the first step is skipped, the cutoff is forgotten
Skips_FirstOnly(s, i, st) == i = 0

\* if cnt == 0: continue / elif idx < pd.to_datetime(start): continue
Skips(s, i, st) == i = 0 \/ s.date_index[i] < st

\* pf_ret[start_condition]: the rows whose mask is True, in index order
Masked(s, pf, mask) ==
  LET keep == {i \in DOMAIN s.date_index : mask[s.date_index[i]]}
  IN [k \in 1 .. Cardinality(keep) |->
        LET i == CHOOSE i \in keep : Cardinality({j \in keep : j < i}) = k - 1
        IN <<s.date_index[i], pf[s.date_index[i]]>>]

---------------------------------------------------------------------------
(* The state machine *)

NoStore == [ret |-> <<>>, shrout |-> <<>>, mktcap |-> <<>>, date_index |-> <<>>]
NoVector == <<>>
NoResult == [called |-> FALSE, x |-> NoVector, success |-> TRUE, nit |-> 0]
NoTables == [c \in TransactionCosts |-> <<>>]

Fresh(d) ==
  /\ data = d
  /\ self = NoStore
  /\ pc = "new"
  /\ portfolio_function = "none"
  /\ start = 0
  /\ cnt = 0
  /\ df_weight = NoTables
  /\ pf_ret = NoTables
  /\ res = NoResult
  /\ target_weight = NoVector
  /\ calls = {}
  /\ out = NoTables

\* Portfolio(data) / StockData(data)
Construct ==
  /\ pc = "new"
  /\ IF HasDuplicateEntries(data)
       THEN pc' = "ValueError" /\ self' = self
       ELSE pc' = "constructed" /\ self' = StockData(data)
  /\ UNCHANGED <<data, portfolio_function, start, cnt, df_weight, pf_ret, res,
                 target_weight, calls, out>>

\* the cutoffs tried: at each date of the panel, and five days either side
StartDates(s) == UNION {{dt - 5, dt, dt + 5} : dt \in DOMAIN s.ret}

\* rebalance(portfolio_function, start, transaction_cost), up to the loop
Rebalance ==
  /\ pc = "constructed"
  /\ \E pfn \in Policies, st \in StartDates(self) :
       /\ portfolio_function' = pfn
       /\ start' = st
  /\ df_weight' = [c \in TransactionCosts |-> gen_weight_zeros(self)]
  /\ pf_ret' = [c \in TransactionCosts |-> gen_return_zeros(self)]
  /\ cnt' = 0
  /\ pc' = "loop"
  /\ UNCHANGED <<data, self, res, target_weight, calls, out>>

\* one pass of  for cnt, idx in enumerate(self.ret.index)
LoopBody ==
  /\ pc = "loop"
  /\ cnt < Len_(self)
  /\ cnt' = cnt + 1
  /\ LET idx == self.date_index[cnt] IN
     IF Skips(self, cnt, start)
       THEN UNCHANGED <<df_weight, pf_ret, res, target_weight, calls>>
       ELSE \E r \in (IF IsOptimizerPolicy(portfolio_function)
                        THEN minimize(self, get_ret_til(self, cnt - 1))
                        ELSE {res}) :
              LET target == CallPolicy(portfolio_function, self, cnt - 1, r)
                  prev == self.date_index[cnt - 1]
                  diff == [c \in TransactionCosts |->
                             weight_difference(target, current_weight(self, df_weight[c], prev))]
                  dw == [c \in TransactionCosts |-> SetWeight(df_weight[c], idx, target)]
              IN /\ res' = r
                 /\ target_weight' = target
                 /\ calls' = calls \cup {[cnt |-> cnt, when |-> cnt - 1,
                                          read |-> PolicyReads(portfolio_function, self, cnt - 1),
                                          target |-> target]}
                 /\ df_weight' = dw
                 /\ pf_ret' = [c \in TransactionCosts |->
                                 SetReturn(self, pf_ret[c], dw[c], idx, diff[c], c)]
  /\ UNCHANGED <<data, self, pc, portfolio_function, start, out>>

\* return pf_ret[start_condition]
Return ==
  /\ pc = "loop"
  /\ cnt = Len_(self)
  /\ out' = [c \in TransactionCosts |-> Masked(self, pf_ret[c], start_condition(self, start))]
  /\ pc' = "returned"
  /\ UNCHANGED <<data, self, portfolio_function, start, cnt, df_weight, pf_ret, res,
                 target_weight, calls>>

Next == Construct \/ Rebalance \/ LoopBody \/ Return

---------------------------------------------------------------------------
(* Inputs *)

Permnos == {1, 2}

\* a clean long-format table: one record per (date, permno), dates 10, 20, ...
CleanData(panel, sh) ==
  LET ps == Cardinality(DOMAIN sh)
      n == Cardinality(DOMAIN panel) * ps
  IN [k \in 1 .. n |->
        LET i == (k - 1) \div ps
            p == ((k - 1) % ps) + 1
        IN [date |-> 10 * (i + 1), permno |-> p, ret |-> panel[i][p], shrout |-> sh[p]]]

Row2(a, b) == [p \in Permnos |-> IF p = 1 THEN a ELSE b]

\* monthly returns of the two assets at one date
RetRows == {Row2(One, One), Row2(One, Frac(-1, 2)), Row2(Zero, One)}

\* shares outstanding of the two assets
ShroutRows == {Row2(One, One), Row2(One, Num(2))}

Init ==
  \E panel \in [0 .. NumSteps - 1 -> RetRows], sh \in ShroutRows : Fresh(CleanData(panel, sh))

Spec == Init /\ [][Next]_vars

\* The construction runs: any record list of up to MaxRows rows over two
\* dates and two permnos, complete or not, with or without repeated keys
Records ==
  {[date |-> dt, permno |-> p, ret |-> r, shrout |-> One] :
     dt \in {10, 20}, p \in Permnos, r \in {Zero, One}}

RecordLists == UNION {[1 .. n -> Records] : n \in 0 .. MaxRows}

InitStore == \E d \in RecordLists : Fresh(d)

NextStore == Construct

SpecStore == InitStore /\ [][NextStore]_vars

\* The end-to-end scenario: 3 assets, 4 monthly steps, shares of 1
Row3(a, b, c) == [p \in {1, 2, 3} |-> IF p = 1 THEN a ELSE IF p = 2 THEN b ELSE c]
Pct(i) == Frac(i, 100)

E2ERows ==
  [i \in 0 .. 3 |->
     CASE i = 0 -> {Row3(Pct(1), Pct(2), Pct(0)), Row3(Pct(3), Pct(0), Pct(0))}
       [] i = 1 -> {Row3(Pct(1), Pct(1), Pct(1)), Row3(Pct(1), Pct(-1), Pct(0))}
       [] i = 2 -> {Row3(Pct(-1), Pct(0), Pct(2)), Row3(Pct(2), Pct(2), Pct(-1))}
       [] i = 3 -> {Row3(Pct(2), Pct(2), Pct(2)), Row3(Pct(0), Pct(3), Pct(-6))}]

InitE2E ==
  \E panel \in [0 .. 3 -> UNION {E2ERows[i] : i \in 0 .. 3}] :
     /\ \A i \in 0 .. 3 : panel[i] \in E2ERows[i]
     /\ Fresh(CleanData(panel, Row3(One, One, One)))

SpecE2E == InitE2E /\ [][Next]_vars

---------------------------------------------------------------------------
(* Vocabulary of the properties *)

Built == pc \in {"constructed", "loop", "returned"}
Running == pc \in {"loop", "returned"}
Positions == DOMAIN self.date_index
DateAt(i) == self.date_index[i]

\* time step i has been passed by the loop
Processed(i) == Running /\ i < cnt

\* time step i is an active one: not the first, and dated at or after the cutoff
ActiveStep(i) == i >= 1 /\ DateAt(i) >= start

CallsAt(i) == {k \in calls : k.cnt = i}

\* sum over the assets of x[a] * y[a]
Dot(x, y) == SeriesSum([p \in DOMAIN x |-> FMul(x[p], y[p])])

\* the weights stored at step i - 1 grown by the returns of step i - 1
Drifted(c, i) ==
  [p \in AssetsOf(self) |->
     FMul(FAdd(One, self.ret[DateAt(i - 1)][p]), df_weight[c][DateAt(i - 1)][p])]

DriftTotal(c, i) == SeriesSum(Drifted(c, i))

Current(c, i) ==
  LET grown == Drifted(c, i)
      total == SeriesSum(grown)
  IN [p \in AssetsOf(self) |-> FDiv(grown[p], total)]

Turnover(c, i) ==
  LET current == Current(c, i)
  IN SeriesSum([p \in AssetsOf(self) |->
                  FAbs(FSub(df_weight[c][DateAt(i)][p], current[p]))])

Gross(c, i) == Dot(self.ret[DateAt(i)], df_weight[c][DateAt(i)])

AllFinite(v) == \A p \in DOMAIN v : IsFinite(v[p])

---------------------------------------------------------------------------
(* Properties *)

\* C1: at every active step t whose prior step's stored weights have a
\* non-zero drifted total, a solver call for index t - 1 was made, its result
\* is the weight row stored for t, and the recorded return is
\*   sum_a(ret[t,a] * target[a]) - transaction_cost * sum_a|target[a] - current[a]|
\* with current the prior row grown by (1 + ret[t-1]) and divided by its total.
C1_RecordedReturn ==
  \A c \in TransactionCosts : \A i \in Positions :
    (Processed(i) /\ ActiveStep(i) /\ DriftTotal(c, i) # Zero) =>
      /\ \E k \in CallsAt(i) : k.when = i - 1 /\ k.target = df_weight[c][DateAt(i)]
      /\ portfolio_function = "value_weight" => df_weight[c][DateAt(i)] = value_weight(self, i - 1)
      /\ portfolio_function = "equal_weight" => df_weight[c][DateAt(i)] = equal_weight(self, i - 1)
      /\ pf_ret[c][DateAt(i)] = FSub(Gross(c, i), FMul(c, Turnover(c, i)))

\* C1 witness: an active step with a non-zero drifted total where a positive
\* turnover was charged at a positive cost rate
C1_Witness ==
  \E c \in TransactionCosts : \E i \in Positions :
    /\ Processed(i) /\ ActiveStep(i)
    /\ IsFinite(DriftTotal(c, i)) /\ DriftTotal(c, i) # Zero
    /\ FLt(Zero, c) /\ FLt(Zero, Turnover(c, i)) /\ IsFinite(Turnover(c, i))
    /\ FLt(pf_ret[c][DateAt(i)], Gross(c, i))

\* C2: once rebalance has returned, the first step and every step dated
\* strictly before the cutoff has an all-zero weight row and a recorded return
\* of zero, and no solver call was made for it.
C2_SkippedStepsZero ==
  pc = "returned" =>
    \A i \in Positions :
      (i = 0 \/ DateAt(i) < start) =>
        /\ CallsAt(i) = {}
        /\ \A c \in TransactionCosts :
             /\ \A p \in AssetsOf(self) : df_weight[c][DateAt(i)][p] = Zero
             /\ pf_ret[c][DateAt(i)] = Zero

\* C2 witness: a finished run with a step after the first dated before the
\* cutoff, and a later active step with a non-zero recorded return
C2_Witness ==
  /\ pc = "returned"
  /\ \E i, j \in Positions :
       /\ i >= 1 /\ DateAt(i) < start
       /\ j > i /\ ActiveStep(j) /\ pf_ret[Zero][DateAt(j)] # Zero

\* the returned series is exactly the steps dated strictly after the cutoff,
\* in index order: the last n steps, n the number of such steps
OutputIsStrictlyAfterCutoff ==
  \A c \in TransactionCosts :
    LET n == Cardinality({i \in Positions : DateAt(i) > start})
        first == Len_(self) - n
    IN out[c] = [k \in 1 .. n |->
                   <<DateAt(first + k - 1), pf_ret[c][DateAt(first + k - 1)]>>]

\* step i was processed as an active step (a solver call, its result stored
\* as the weight row) and is not part of the returned series
ActiveButNotReturned(i) ==
  /\ \E k \in CallsAt(i) : \A c \in TransactionCosts : df_weight[c][DateAt(i)] = k.target
  /\ \A c \in TransactionCosts : \A k \in DOMAIN out[c] : out[c][k][1] # DateAt(i)

CoversAllWhenCutoffPrecedes ==
  start < DateAt(0) => \A c \in TransactionCosts : Len(out[c]) = Len_(self)

\* C3 (as stated): the returned series holds exactly the steps dated strictly
\* after the cutoff, in order; a step dated exactly at the cutoff is processed
\* as an active step but not returned; a cutoff before the first date returns
\* every step.
C3_Original ==
  pc = "returned" =>
    /\ OutputIsStrictlyAfterCutoff
    /\ \A i \in Positions : DateAt(i) = start => ActiveButNotReturned(i)
    /\ CoversAllWhenCutoffPrecedes

\* C3 (amended): the same, where the step dated exactly at the cutoff is one
\* other than the first step of the series (which is always skipped).
C3_OutputAfterCutoff ==
  pc = "returned" =>
    /\ OutputIsStrictlyAfterCutoff
    /\ \A i \in Positions : (DateAt(i) = start /\ i >= 1) => ActiveButNotReturned(i)
    /\ CoversAllWhenCutoffPrecedes

\* C3 witness: a finished run whose cutoff is the date of a step after the
\* first, with a non-zero return recorded there and later steps returned
C3_Witness ==
  /\ pc = "returned"
  /\ \E i \in Positions :
       /\ i >= 1 /\ DateAt(i) = start
       /\ pf_ret[Zero][DateAt(i)] # Zero
       /\ Len(out[Zero]) = Len_(self) - 1 - i
       /\ Len(out[Zero]) >= 1

\* the end-to-end scenario has run to its end: 3 assets, 4 steps,
\* equal_weight, the cutoff at the date of step 1 (read at transaction_cost 0)
E2ECase ==
  /\ pc = "returned"
  /\ portfolio_function = "equal_weight"
  /\ Cardinality(AssetsOf(self)) = 3
  /\ Len_(self) = 4
  /\ start = DateAt(1)

\* the equal-weighted average of the asset returns of step i
Average(i) == FDiv(FSum(self.ret[DateAt(i)]), Num(Cardinality(AssetsOf(self))))

E2EOutput == out[Zero] = <<<<DateAt(2), Average(2)>>, <<DateAt(3), Average(3)>>>>

\* C4 (as stated): in the end-to-end scenario the returned series is the
\* equal-weighted average at steps 2 and 3, and the recorded return of step 0
\* and of step 1 is zero.
C4_Original ==
  E2ECase =>
    /\ E2EOutput
    /\ pf_ret[Zero][DateAt(0)] = Zero
    /\ pf_ret[Zero][DateAt(1)] = Zero

\* C4 (amended): the returned series is the equal-weighted average at steps 2
\* and 3 and holds no other step; the recorded return of step 0 is zero; step
\* 1, dated at the cutoff, is an active step whose recorded return is the
\* equal-weighted average of its asset returns.
C4_EndToEnd ==
  E2ECase =>
    /\ E2EOutput
    /\ pf_ret[Zero][DateAt(0)] = Zero
    /\ pf_ret[Zero][DateAt(1)] = Average(1)

\* C4 witness: the scenario run on the returns
\* [[.01,.02,0],[.01,.01,.01],[-.01,0,.02],[.02,.02,.02]]
C4_Witness ==
  /\ E2ECase
  /\ self.ret[DateAt(0)] = Row3(Pct(1), Pct(2), Pct(0))
  /\ self.ret[DateAt(1)] = Row3(Pct(1), Pct(1), Pct(1))
  /\ self.ret[DateAt(2)] = Row3(Pct(-1), Pct(0), Pct(2))
  /\ self.ret[DateAt(3)] = Row3(Pct(2), Pct(2), Pct(2))
  /\ out[Zero] = <<<<30, Frac(1, 300)>>, <<40, Pct(2)>>>>
  /\ pf_ret[Zero][DateAt(1)] = Pct(1)

\* every weight vector the solver has returned so far is made of finite numbers
TargetsFinite == \A k \in calls : AllFinite(k.target)

\* C5: for cost rates c1 <= c2 the two runs store the same weights and have
\* the same turnover at every step, the return recorded under c2 is <= the
\* one under c1, strictly smaller where the turnover is > 0 and c1 < c2, and
\* the summed return of the finished run under c2 is <= the one under c1.
\* (Stated for the runs whose target weights are all finite numbers.)
C5_CostMonotone ==
  \A c1, c2 \in TransactionCosts :
    (TargetsFinite /\ FLe(c1, c2)) =>
      /\ \A i \in Positions :
           Processed(i) =>
             /\ df_weight[c1][DateAt(i)] = df_weight[c2][DateAt(i)]
             /\ FLe(pf_ret[c2][DateAt(i)], pf_ret[c1][DateAt(i)])
             /\ ActiveStep(i) =>
                  /\ Turnover(c1, i) = Turnover(c2, i)
                  /\ (FLt(c1, c2) /\ FLt(Zero, Turnover(c1, i))) =>
                       FLt(pf_ret[c2][DateAt(i)], pf_ret[c1][DateAt(i)])
      /\ pc = "returned" => FLe(FSum(pf_ret[c2]), FSum(pf_ret[c1]))

\* the market caps at position t are non-negative with a positive total
CapsNonNegative(t) ==
  /\ \A p \in AssetsOf(self) : FLe(Zero, self.mktcap[DateAt(t)][p])
  /\ FLt(Zero, FSum(self.mktcap[DateAt(t)]))

\* C6: equal_weight sums to 1 at every index, value_weight sums to 1 at every
\* index whose market caps are non-negative with a positive total, and so
\* does every weight row rebalance stores for an active step under them.
C6_Budget ==
  Built =>
    /\ \A t \in Positions :
         /\ FSum(equal_weight(self, t)) = One
         /\ CapsNonNegative(t) => FSum(value_weight(self, t)) = One
    /\ \A c \in TransactionCosts : \A i \in Positions :
         (Processed(i) /\ ActiveStep(i)) =>
           /\ portfolio_function = "equal_weight" => FSum(df_weight[c][DateAt(i)]) = One
           /\ (portfolio_function = "value_weight" /\ CapsNonNegative(i - 1)) =>
                FSum(df_weight[c][DateAt(i)]) = One

\* C6 witness: two active steps of a value_weight run, both with non-negative
\* caps of positive total, the second storing unequal weights
C6_Witness ==
  /\ portfolio_function = "value_weight"
  /\ \E i \in Positions :
       /\ i >= 2 /\ Processed(i) /\ ActiveStep(i - 1)
       /\ CapsNonNegative(i - 1) /\ CapsNonNegative(i - 2)
       /\ df_weight[One][DateAt(i)] # equal_weight(self, i - 1)
       /\ \A p \in AssetsOf(self) : FLt(Zero, df_weight[One][DateAt(i)][p])

\* C7: when the optimiser stops without converging, what the policy hands to
\* its caller shows it: the value returned is not the bare iterate, which a
\* caller cannot tell from a converged weight vector.
C7_NonConvergenceFlagged ==
  (Running /\ res.called /\ ~res.success) => target_weight # res.x

\* every date of the record list has exactly one record for every permno
CompletePanel(d) ==
  \A dt \in Index(d) : \A p \in Columns(d) :
    Cardinality({i \in DOMAIN d : d[i].date = dt /\ d[i].permno = p}) = 1

\* C8: construction fails, and yields no store, whenever a (date, permno) cell
\* is missing or the permno sets differ between dates; a store is constructed
\* only when every date has exactly one record for every permno.
C8_MalformedInputRejected ==
  pc # "new" => (pc = "constructed" <=> CompletePanel(data))

\* C9: get_ret_til(t) is exactly the rows of steps 0 .. t (t + 1 rows, none
\* later than t), so its row count grows strictly with t; every solver call
\* rebalance makes at step cnt is for index cnt - 1 and reads no row of step
\* cnt or later.
C9_ExpandingWindow ==
  Built =>
    /\ \A t \in Positions :
         /\ get_ret_til(self, t) = [dt \in {DateAt(i) : i \in 0 .. t} |-> self.ret[dt]]
         /\ Cardinality(DOMAIN get_ret_til(self, t)) = t + 1
         /\ t >= 1 => Cardinality(DOMAIN get_ret_til(self, t))
                        > Cardinality(DOMAIN get_ret_til(self, t - 1))
    /\ \A k \in calls :
         /\ k.when = k.cnt - 1
         /\ k.read \subseteq {DateAt(i) : i \in 0 .. k.cnt - 1}
         /\ IsOptimizerPolicy(portfolio_function) => k.read = {DateAt(i) : i \in 0 .. k.cnt - 1}

\* C9 witness: an optimiser-based policy was called on a window of two rows
\* or more, after a call on a shorter one
C9_Witness ==
  /\ IsOptimizerPolicy(portfolio_function)
  /\ \E k, j \in calls :
       /\ k.cnt >= 2
       /\ Cardinality(k.read) = k.cnt
       /\ j.cnt = k.cnt - 1
       /\ Cardinality(j.read) < Cardinality(k.read)

\* position i is the first active step of the run
FirstActive(i) == ActiveStep(i) /\ \A j \in Positions : (j < i) => ~ActiveStep(j)

\* the seed step charges nothing: the prior row is all zero, the drifted
\* weights are all 0/0, the turnover is 0 and the recorded return is the
\* weighted return for every cost rate
SeedStepUncharged(i) ==
  \A c \in TransactionCosts :
    /\ \A p \in AssetsOf(self) : df_weight[c][DateAt(i - 1)][p] = Zero
    /\ \A p \in AssetsOf(self) : IsNaN(Current(c, i)[p])
    /\ Turnover(c, i) = Zero
    /\ pf_ret[c][DateAt(i)] = Gross(c, i)

\* the step after the seed step is charged its turnover
SecondStepCharged(i) ==
  \A c \in TransactionCosts :
    Processed(i + 1) =>
      pf_ret[c][DateAt(i + 1)] = FSub(Gross(c, i + 1), FMul(c, Turnover(c, i + 1)))

\* C10: at the first active step the prior weight row is all zero, the drift
\* normalisation is 0/0, the turnover charged is 0 and the recorded return is
\* sum_a(ret[t,a] * target[a]) for every cost rate; no NaN is written into
\* the return series by this step; cost is first charged at the next step.
C10_SeedStep ==
  \A i \in Positions :
    (Processed(i) /\ FirstActive(i)) =>
      /\ SeedStepUncharged(i)
      /\ \A c \in TransactionCosts : ~IsNaN(pf_ret[c][DateAt(i)])
      /\ SecondStepCharged(i)

===========================================================================
